---- MODULE Spec2Model ----
(***************************************************************************)
(* obsctl: the credential / context store (pkg/config/config.go), the      *)
(* login flow (pkg/cmd/login.go) and the one command that asks for an      *)
(* authenticated client (pkg/cmd/metrics.go, rules.raw).                   *)
(*                                                                         *)
(* The model covers runs in which the filesystem calls of Read and Save    *)
(* succeed.  Time is counted in seconds; ZeroTime is Go's zero time.Time.  *)
(***************************************************************************)
EXTENDS Integers, Sequences, FiniteSets, TLC

VARIABLES
    cfg,      \* the *Config the process holds in memory
    file,     \* the bytes of config.json: <<>> or a document followed by filler
    now,      \* the wall clock, in seconds
    ticks,    \* how often the clock has advanced
    client,   \* the *http.Client the last Client() call returned, if any
    last,     \* the last operation and what it returned
    run,      \* concurrent runs of the program: each one's position and *Config
    lastSave  \* the concurrent run whose Save wrote last (0: none yet)

vars == <<cfg, file, now, ticks, client, last, run, lastSave>>

raceVars == <<run, lastSave>>

-----------------------------------------------------------------------------
(* Bounds of the model. *)

MaxContexts == 2
MaxTicks == 1
MaxSaves == 2
Epoch == 100

(* Inputs. The empty string is an input as any other: no operation rejects it. *)
APINames == {"", "a"}
TenantNames == {"", "t"}
URLs == {"u", "u2"}
Labels == {"T"}
Procs == {1, 2}
TickSteps == {1, 3600}

ZeroTime == 0

-----------------------------------------------------------------------------
(* Go maps. *)

EmptyMap == [k \in {} |-> {}]

Put(m, k, v) == [x \in DOMAIN m \cup {k} |-> IF x = k THEN v ELSE m[x]]

Delete(m, k) == [x \in DOMAIN m \ {k} |-> m[x]]

(* A pointer is <<>> (nil) or <<v>>. *)
Nil == <<>>

(* The zero values of the types. *)
ZeroContext == [Tenant |-> "", OIDC |-> Nil]

ZeroCurrent == [API |-> "", Tenant |-> ""]

ZeroConfig == [APIs |-> EmptyMap, APIsNil |-> TRUE, Current |-> ZeroCurrent]

(* c.APIs[api].Contexts, the map read of a missing key giving the zero API. *)
ContextsOf(c, api) == IF api \in DOMAIN c.APIs THEN c.APIs[api].Contexts ELSE EmptyMap

NumContexts(c) ==
    LET slots == {<<a, t>> \in APINames \X TenantNames : t \in DOMAIN ContextsOf(c, a)}
    IN Cardinality(slots)

-----------------------------------------------------------------------------
(* encoding/json of Config, and the file. *)

EncodeOIDC(p) ==
    IF p = Nil THEN Nil
    ELSE <<[accessToken |-> p[1].AccessToken, refreshToken |-> p[1].RefreshToken,
            expiry |-> <<"RFC3339", p[1].Expiry>>,
            audience |-> p[1].Audience, clientId |-> p[1].ClientID,
            clientSecret |-> p[1].ClientSecret, issuerUrl |-> p[1].IssuerURL]>>

EncodeContexts(a) ==
    IF a.ContextsNil THEN Nil
    ELSE <<[t \in DOMAIN a.Contexts |->
              [tenant |-> a.Contexts[t].Tenant, oidc |-> EncodeOIDC(a.Contexts[t].OIDC)]]>>

Encode(c) ==
    [apis |-> IF c.APIsNil THEN Nil
              ELSE <<[a \in DOMAIN c.APIs |->
                        [url |-> c.APIs[a].URL, contexts |-> EncodeContexts(c.APIs[a])]]>>,
     current |-> [api |-> c.Current.API, tenant |-> c.Current.Tenant]]

DecodeOIDC(j) ==
    IF j = Nil THEN Nil
    ELSE <<[AccessToken |-> j[1].accessToken, RefreshToken |-> j[1].refreshToken,
            Expiry |-> j[1].expiry[2],
            Audience |-> j[1].audience, ClientID |-> j[1].clientId,
            ClientSecret |-> j[1].clientSecret, IssuerURL |-> j[1].issuerUrl]>>

DecodeAPI(j) ==
    [URL |-> j.url,
     Contexts |-> IF j.contexts = Nil THEN EmptyMap
                  ELSE [t \in DOMAIN j.contexts[1] |->
                          [Tenant |-> j.contexts[1][t].tenant,
                           OIDC |-> DecodeOIDC(j.contexts[1][t].oidc)]],
     ContextsNil |-> j.contexts = Nil]

Decode(d) ==
    [APIs |-> IF d.apis = Nil THEN EmptyMap
              ELSE [a \in DOMAIN d.apis[1] |-> DecodeAPI(d.apis[1][a])],
     APIsNil |-> d.apis = Nil,
     Current |-> [API |-> d.current.api, Tenant |-> d.current.tenant]]

(* The length of the encoded document, in blocks: it grows with every entry. *)
Size(c) == 1 + Cardinality(DOMAIN c.APIs) + NumContexts(c)

Filler(n) == [i \in 1..n |-> "."]

(* What Encoder.Encode writes in its one Write call. *)
Image(c) == <<Encode(c)>> \o Filler(Size(c) - 1)

(* write(2) on a descriptor opened with O_APPEND. *)
WriteAppend(f, data) == f \o data

(* write(2) of data at offset 0 of a file holding f. *)
WriteAt0(f, data) ==
    IF Len(data) >= Len(f) THEN data ELSE data \o SubSeq(f, Len(data) + 1, Len(f))

(* Read: io.EOF on an empty file is no error and leaves the zero Config;     *)
(* otherwise Decode takes the first JSON value and leaves the rest unread.   *)
Read(f) == IF f = <<>> THEN ZeroConfig ELSE Decode(Head(f))

(* Save with nothing running in between: O_TRUNC, then the one write. *)
Save(c) == WriteAt0(<<>>, Image(c))

-----------------------------------------------------------------------------
(* The Context Graph: each operation gives the Config it leaves in memory,  *)
(* its error and whether it reached Save.                                   *)

Result(c, e, s) == [cfg |-> c, err |-> e, saved |-> s]

AddAPI(c, name, url) ==
    LET c1 == [c EXCEPT !.APIsNil = FALSE]
    IN IF name \in DOMAIN c1.APIs
       THEN Result(c1, "AlreadyExists", FALSE)
       ELSE Result([c1 EXCEPT !.APIs = Put(@, name,
                        [URL |-> url, Contexts |-> EmptyMap, ContextsNil |-> TRUE])],
                   "ok", TRUE)

RemoveAPI(c, name) ==
    IF name \notin DOMAIN c.APIs
    THEN Result(c, "NotFound", FALSE)
    ELSE Result([c EXCEPT !.APIs = Delete(@, name)], "ok", TRUE)

(* AddTenant that reports an existing tenant only after it has replaced it. *)
AddTenantOverwrites(c, name, api, tenant, oidcCfg) ==
    IF api \notin DOMAIN c.APIs
    THEN Result(c, "NotFound", FALSE)
    ELSE LET c1 == [c EXCEPT !.APIs[api].ContextsNil = FALSE]
             c2 == [c1 EXCEPT !.APIs[api].Contexts =
                        Put(@, name, [Tenant |-> tenant, OIDC |-> oidcCfg])]
             c3 == IF c2.Current.API = "" /\ c2.Current.Tenant = ""
                   THEN [c2 EXCEPT !.Current = [API |-> api, Tenant |-> name]]
                   ELSE c2
         IN IF name \in DOMAIN c1.APIs[api].Contexts
            THEN Result(c3, "AlreadyExists", FALSE)
            ELSE Result(c3, "ok", TRUE)

(* AddTenant that also selects the new tenant when the Selection names      *)
(* nothing that exists.                                                     *)
AddTenantReselects(c, name, api, tenant, oidcCfg) ==
    IF api \notin DOMAIN c.APIs
    THEN Result(c, "NotFound", FALSE)
    ELSE LET c1 == [c EXCEPT !.APIs[api].ContextsNil = FALSE]
         IN IF name \in DOMAIN c1.APIs[api].Contexts
            THEN Result(c1, "AlreadyExists", FALSE)
            ELSE LET c2 == [c1 EXCEPT !.APIs[api].Contexts =
                                Put(@, name, [Tenant |-> tenant, OIDC |-> oidcCfg])]
                     c3 == IF \/ c2.Current.API = "" /\ c2.Current.Tenant = ""
                              \/ c.Current.API \notin DOMAIN c.APIs
                              \/ c.Current.Tenant \notin DOMAIN ContextsOf(c, c.Current.API)
                           THEN [c2 EXCEPT !.Current = [API |-> api, Tenant |-> name]]
                           ELSE c2
                 IN Result(c3, "ok", TRUE)

AddTenant(c, name, api, tenant, oidcCfg) ==
    IF api \notin DOMAIN c.APIs
    THEN Result(c, "NotFound", FALSE)
    ELSE LET c1 == [c EXCEPT !.APIs[api].ContextsNil = FALSE]
         IN IF name \in DOMAIN c1.APIs[api].Contexts
            THEN Result(c1, "AlreadyExists", FALSE)
            ELSE LET c2 == [c1 EXCEPT !.APIs[api].Contexts =
                                Put(@, name, [Tenant |-> tenant, OIDC |-> oidcCfg])]
                     c3 == IF c2.Current.API = "" /\ c2.Current.Tenant = ""
                           THEN [c2 EXCEPT !.Current = [API |-> api, Tenant |-> name]]
                           ELSE c2
                 IN Result(c3, "ok", TRUE)

(* RemoveTenant that returns after the delete, without Save. *)
RemoveTenantWithoutSave(c, name, api) ==
    IF api \notin DOMAIN c.APIs
    THEN Result(c, "NotFound", FALSE)
    ELSE IF name \notin DOMAIN c.APIs[api].Contexts
         THEN Result(c, "NotFound", FALSE)
         ELSE Result([c EXCEPT !.APIs[api].Contexts = Delete(@, name)], "ok", FALSE)

RemoveTenant(c, name, api) ==
    IF api \notin DOMAIN c.APIs
    THEN Result(c, "NotFound", FALSE)
    ELSE IF name \notin DOMAIN c.APIs[api].Contexts
         THEN Result(c, "NotFound", FALSE)
         ELSE Result([c EXCEPT !.APIs[api].Contexts = Delete(@, name)], "ok", TRUE)

(* SetCurrent without the check that the tenant exists under the API. *)
SetCurrentUnchecked(c, api, tenant) ==
    IF api \notin DOMAIN c.APIs
    THEN Result(c, "NotFound", FALSE)
    ELSE Result([c EXCEPT !.Current = [API |-> api, Tenant |-> tenant]], "ok", TRUE)

SetCurrent(c, api, tenant) ==
    IF api \notin DOMAIN c.APIs
    THEN Result(c, "NotFound", FALSE)
    ELSE IF tenant \notin DOMAIN c.APIs[api].Contexts
         THEN Result(c, "NotFound", FALSE)
         ELSE Result([c EXCEPT !.Current = [API |-> api, Tenant |-> tenant]], "ok", TRUE)

(* GetCurrent without the check that the tenant exists: the map read of a   *)
(* missing key gives the zero Context.                                      *)
GetCurrentUnchecked(c) ==
    IF c.Current.API = "" \/ c.Current.Tenant = ""
    THEN [ctx |-> ZeroContext, err |-> "EmptySelection"]
    ELSE IF c.Current.API \notin DOMAIN c.APIs
         THEN [ctx |-> ZeroContext, err |-> "NotFound"]
         ELSE [ctx |-> IF c.Current.Tenant \in DOMAIN c.APIs[c.Current.API].Contexts
                       THEN c.APIs[c.Current.API].Contexts[c.Current.Tenant]
                       ELSE ZeroContext,
               err |-> "ok"]

GetCurrent(c) ==
    IF c.Current.API = "" \/ c.Current.Tenant = ""
    THEN [ctx |-> ZeroContext, err |-> "EmptySelection"]
    ELSE IF c.Current.API \notin DOMAIN c.APIs
         THEN [ctx |-> ZeroContext, err |-> "NotFound"]
         ELSE IF c.Current.Tenant \notin DOMAIN c.APIs[c.Current.API].Contexts
              THEN [ctx |-> ZeroContext, err |-> "NotFound"]
              ELSE [ctx |-> c.APIs[c.Current.API].Contexts[c.Current.Tenant],
                    err |-> "ok"]

-----------------------------------------------------------------------------
(* golang.org/x/oauth2 as config.go uses it. *)

expiryDelta == 10

(* Token.Valid: a token with the zero Expiry never expires. *)
(* Token.Valid without the expiryDelta margin. *)
ValidWithoutMargin(tkn, t) ==
    /\ tkn.AccessToken # ""
    /\ \/ tkn.Expiry = ZeroTime
       \/ ~(tkn.Expiry < t)

(* Token.Valid that takes the zero Expiry for a time in the past. *)
ValidZeroExpired(tkn, t) ==
    /\ tkn.AccessToken # ""
    /\ ~(tkn.Expiry - expiryDelta < t)

Valid(tkn, t) ==
    /\ tkn.AccessToken # ""
    /\ \/ tkn.Expiry = ZeroTime
       \/ ~(tkn.Expiry - expiryDelta < t)

(* The token endpoint's answers to a client-credentials exchange: the      *)
(* access_token is never empty (the library turns that into an error).     *)
ProviderResponses ==
    {[access_token |-> "at1", refresh_token |-> "rt1", expires_in |-> 3600],
     [access_token |-> "at2", refresh_token |-> "", expires_in |-> 1]}

(* An exchange fails (Nil) or answers. *)
Exchanges == {Nil} \cup {<<r>> : r \in ProviderResponses}

(* The oauth2.Token the library builds from an answer received at time t. *)
TokenOf(resp, t) ==
    [AccessToken |-> resp.access_token,
     RefreshToken |-> resp.refresh_token,
     Expiry |-> IF resp.expires_in = 0 THEN ZeroTime ELSE t + resp.expires_in]

(* OIDCConfig.clientCredentialsConfig: discovery (oidc.NewProvider), which *)
(* succeeds or not, then the clientcredentials.Config.                     *)
clientCredentialsConfig(o, discovered) ==
    IF ~discovered
    THEN [err |-> "TokenRefreshFailed", ccc |-> Nil]
    ELSE [err |-> "ok",
          ccc |-> <<[ClientID |-> o.ClientID, ClientSecret |-> o.ClientSecret,
                     TokenURL |-> <<o.IssuerURL, "token">>,
                     Scopes |-> <<"openid", "offline_access">>,
                     EndpointParams |-> IF o.Audience # "" THEN <<o.Audience>> ELSE Nil]>>]

(* What updateOIDCToken and Client give: the Config left in memory, the     *)
(* error, whether Save was reached, the discoveries and exchanges made, and *)
(* the client.                                                              *)
NoClient == [kind |-> "none"]

DefaultClient == [kind |-> "default"]

(* oauth2.NewClient(ctx, ccc.TokenSource(ctx)): a ReuseTokenSource that     *)
(* starts without a token.                                                  *)
OAuth2Client(ccc) == [kind |-> "oauth2", ccc |-> ccc, token |-> Nil]

Outcome(c, e, s, d, x, cl) ==
    [cfg |-> c, err |-> e, saved |-> s, disc |-> d, exch |-> x, client |-> cl,
     issued |-> Nil]

Issued(o, tkn) == [o EXCEPT !.issued = <<tkn>>]

(* updateOIDCToken that does not copy the refresh token of the answer. *)
updateOIDCTokenKeepsRefreshToken(c, t, discovered, exchange) ==
    LET cur == GetCurrent(c)
    IN IF cur.err # "ok" THEN Outcome(c, cur.err, FALSE, 0, 0, NoClient)
       ELSE IF cur.ctx.OIDC = Nil THEN Outcome(c, "panic", FALSE, 0, 0, NoClient)
       ELSE LET o == cur.ctx.OIDC[1]
                tkn == [AccessToken |-> o.AccessToken, RefreshToken |-> o.RefreshToken,
                        Expiry |-> o.Expiry]
            IN IF Valid(tkn, t) THEN Outcome(c, "ok", FALSE, 0, 0, NoClient)
               ELSE IF clientCredentialsConfig(o, discovered).err # "ok"
                    THEN Outcome(c, "TokenRefreshFailed", FALSE, 1, 0, NoClient)
               ELSE IF exchange = Nil
                    THEN Outcome(c, "TokenRefreshFailed", FALSE, 1, 1, NoClient)
               ELSE LET new == TokenOf(exchange[1], t)
                        o2 == [o EXCEPT !.AccessToken = new.AccessToken,
                                        !.Expiry = new.Expiry]
                        cctx == [cur.ctx EXCEPT !.OIDC = <<o2>>]
                    IN Issued(Outcome([c EXCEPT !.APIs[c.Current.API].Contexts[c.Current.Tenant] = cctx],
                                      "ok", TRUE, 1, 1, NoClient), new)

(* updateOIDCToken that stores and saves what ccc.Token returned before it *)
(* looks at the error: the empty token of a failed exchange.               *)
updateOIDCTokenAssignsBeforeErrorCheck(c, t, discovered, exchange) ==
    LET cur == GetCurrent(c)
    IN IF cur.err # "ok" THEN Outcome(c, cur.err, FALSE, 0, 0, NoClient)
       ELSE IF cur.ctx.OIDC = Nil THEN Outcome(c, "panic", FALSE, 0, 0, NoClient)
       ELSE LET o == cur.ctx.OIDC[1]
                tkn == [AccessToken |-> o.AccessToken, RefreshToken |-> o.RefreshToken,
                        Expiry |-> o.Expiry]
            IN IF Valid(tkn, t) THEN Outcome(c, "ok", FALSE, 0, 0, NoClient)
               ELSE IF clientCredentialsConfig(o, discovered).err # "ok"
                    THEN Outcome(c, "TokenRefreshFailed", FALSE, 1, 0, NoClient)
               ELSE IF exchange = Nil
                    THEN Outcome([c EXCEPT !.APIs[c.Current.API].Contexts[c.Current.Tenant] =
                                      [cur.ctx EXCEPT !.OIDC = <<[o EXCEPT !.AccessToken = ""]>>]],
                                 "TokenRefreshFailed", TRUE, 1, 1, NoClient)
               ELSE LET new == TokenOf(exchange[1], t)
                        o2 == [o EXCEPT !.AccessToken = new.AccessToken,
                                        !.RefreshToken = new.RefreshToken,
                                        !.Expiry = new.Expiry]
                        cctx == [cur.ctx EXCEPT !.OIDC = <<o2>>]
                    IN Issued(Outcome([c EXCEPT !.APIs[c.Current.API].Contexts[c.Current.Tenant] = cctx],
                                      "ok", TRUE, 1, 1, NoClient), new)

(* updateOIDCToken that does not copy the expiry of the answer. *)
updateOIDCTokenKeepsExpiry(c, t, discovered, exchange) ==
    LET cur == GetCurrent(c)
    IN IF cur.err # "ok" THEN Outcome(c, cur.err, FALSE, 0, 0, NoClient)
       ELSE IF cur.ctx.OIDC = Nil THEN Outcome(c, "panic", FALSE, 0, 0, NoClient)
       ELSE LET o == cur.ctx.OIDC[1]
                tkn == [AccessToken |-> o.AccessToken, RefreshToken |-> o.RefreshToken,
                        Expiry |-> o.Expiry]
            IN IF Valid(tkn, t) THEN Outcome(c, "ok", FALSE, 0, 0, NoClient)
               ELSE IF clientCredentialsConfig(o, discovered).err # "ok"
                    THEN Outcome(c, "TokenRefreshFailed", FALSE, 1, 0, NoClient)
               ELSE IF exchange = Nil
                    THEN Outcome(c, "TokenRefreshFailed", FALSE, 1, 1, NoClient)
               ELSE LET new == TokenOf(exchange[1], t)
                        o2 == [o EXCEPT !.AccessToken = new.AccessToken,
                                        !.RefreshToken = new.RefreshToken]
                        cctx == [cur.ctx EXCEPT !.OIDC = <<o2>>]
                    IN Issued(Outcome([c EXCEPT !.APIs[c.Current.API].Contexts[c.Current.Tenant] = cctx],
                                      "ok", TRUE, 1, 1, NoClient), new)

updateOIDCToken(c, t, discovered, exchange) ==
    LET cur == GetCurrent(c)
    IN IF cur.err # "ok" THEN Outcome(c, cur.err, FALSE, 0, 0, NoClient)
       ELSE IF cur.ctx.OIDC = Nil THEN Outcome(c, "panic", FALSE, 0, 0, NoClient)
       ELSE LET o == cur.ctx.OIDC[1]
                tkn == [AccessToken |-> o.AccessToken, RefreshToken |-> o.RefreshToken,
                        Expiry |-> o.Expiry]
            IN IF Valid(tkn, t) THEN Outcome(c, "ok", FALSE, 0, 0, NoClient)
               ELSE IF clientCredentialsConfig(o, discovered).err # "ok"
                    THEN Outcome(c, "TokenRefreshFailed", FALSE, 1, 0, NoClient)
               ELSE IF exchange = Nil
                    THEN Outcome(c, "TokenRefreshFailed", FALSE, 1, 1, NoClient)
               ELSE LET new == TokenOf(exchange[1], t)
                        o2 == [o EXCEPT !.AccessToken = new.AccessToken,
                                        !.RefreshToken = new.RefreshToken,
                                        !.Expiry = new.Expiry]
                        cctx == [cur.ctx EXCEPT !.OIDC = <<o2>>]
                    IN Issued(Outcome([c EXCEPT !.APIs[c.Current.API].Contexts[c.Current.Tenant] = cctx],
                                      "ok", TRUE, 1, 1, NoClient), new)

(* Client without the test for a Context that has no Credential. *)
ClientWithoutNilCheck(c, t, discovered1, exchange, discovered2) ==
    LET cur == GetCurrent(c)
    IN IF cur.err # "ok" THEN Outcome(c, cur.err, FALSE, 0, 0, NoClient)
       ELSE LET u == updateOIDCToken(c, t, discovered1, exchange)
            IN IF u.err # "ok" THEN u
               ELSE LET r == clientCredentialsConfig(GetCurrent(u.cfg).ctx.OIDC[1], discovered2)
                    IN IF r.err # "ok"
                       THEN [u EXCEPT !.err = "TokenRefreshFailed", !.disc = u.disc + 1]
                       ELSE [u EXCEPT !.disc = u.disc + 1, !.client = OAuth2Client(r.ccc[1])]

(* cctx.OIDC is a pointer: after updateOIDCToken it points at the refreshed *)
(* OIDCConfig, whose identity parameters are the ones it had.               *)
Client(c, t, discovered1, exchange, discovered2) ==
    LET cur == GetCurrent(c)
    IN IF cur.err # "ok" THEN Outcome(c, cur.err, FALSE, 0, 0, NoClient)
       ELSE IF cur.ctx.OIDC = Nil THEN Outcome(c, "ok", FALSE, 0, 0, DefaultClient)
       ELSE LET u == updateOIDCToken(c, t, discovered1, exchange)
            IN IF u.err # "ok" THEN u
               ELSE LET r == clientCredentialsConfig(GetCurrent(u.cfg).ctx.OIDC[1], discovered2)
                    IN IF r.err # "ok"
                       THEN [u EXCEPT !.err = "TokenRefreshFailed", !.disc = u.disc + 1]
                       ELSE [u EXCEPT !.disc = u.disc + 1, !.client = OAuth2Client(r.ccc[1])]

(* The first request of a client (Transport.RoundTrip): the token source's  *)
(* token is reused if it is valid, and fetched from the provider otherwise. *)
(* Gives the client afterwards, the error, the exchanges made and the       *)
(* bearer token sent (Nil: none).                                           *)
RoundTrip(cl, t, exchange) ==
    IF cl.kind = "default"
    THEN [client |-> cl, err |-> "ok", exch |-> 0, bearer |-> Nil, issued |-> Nil]
    ELSE IF cl.token # Nil /\ Valid(cl.token[1], t)
         THEN [client |-> cl, err |-> "ok", exch |-> 0,
               bearer |-> <<cl.token[1].AccessToken>>, issued |-> Nil]
    ELSE IF exchange = Nil
         THEN [client |-> cl, err |-> "TokenRefreshFailed", exch |-> 1, bearer |-> Nil,
               issued |-> Nil]
    ELSE LET tkn == TokenOf(exchange[1], t)
         IN [client |-> [cl EXCEPT !.token = <<tkn>>], err |-> "ok", exch |-> 1,
             bearer |-> <<tkn.AccessToken>>, issued |-> <<tkn>>]

-----------------------------------------------------------------------------
(* pkg/cmd/login.go *)

(* net/url.Parse on the arguments the model gives login. *)
URLParse(s) ==
    CASE s = "https://a" -> [ok |-> TRUE, Host |-> "a", String |-> "https://a"]
      [] s = "%" -> [ok |-> FALSE, Host |-> "", String |-> ""]
      [] OTHER -> [ok |-> TRUE, Host |-> "", String |-> s]

LoginAPIs == {"a", "https://a", "%"}

LoginIdentity == [issuerURL |-> "iss", clientID |-> "id", clientSecret |-> "sec", audience |-> ""]

runLogin(f, t, tenant, api, id, discovered, exchange) ==
    IF ~discovered THEN Outcome(Read(f), "TokenRefreshFailed", FALSE, 1, 0, NoClient)
    ELSE IF exchange = Nil THEN Outcome(Read(f), "TokenRefreshFailed", FALSE, 1, 1, NoClient)
    ELSE LET tkn == TokenOf(exchange[1], t)
             conf == Read(f)
             oidc == <<[AccessToken |-> tkn.AccessToken, RefreshToken |-> tkn.RefreshToken,
                        Expiry |-> tkn.Expiry,
                        Audience |-> id.audience, ClientID |-> id.clientID,
                        ClientSecret |-> id.clientSecret, IssuerURL |-> id.issuerURL]>>
         IN IF api \in DOMAIN conf.APIs
            THEN LET r == AddTenant(conf, tenant, api, tenant, oidc)
                 IN Issued(Outcome(r.cfg, r.err, r.saved, 1, 1, NoClient), tkn)
            ELSE LET apiURL == URLParse(api)
                 IN IF ~apiURL.ok
                    THEN Issued(Outcome(conf, "InvalidURL", FALSE, 1, 1, NoClient), tkn)
                    ELSE LET a == AddAPI(conf, apiURL.Host, apiURL.String)
                         IN IF a.err # "ok"
                            THEN Issued(Outcome(a.cfg, a.err, a.saved, 1, 1, NoClient), tkn)
                            ELSE LET r == AddTenant(a.cfg, tenant, apiURL.Host, tenant, oidc)
                                 IN Issued(Outcome(r.cfg, r.err, TRUE, 1, 1, NoClient), tkn)

-----------------------------------------------------------------------------
(* The Credentials a caller hands to AddTenant: none, or one of these. *)
Credential(accessToken, expiry) ==
    <<[AccessToken |-> accessToken, RefreshToken |-> "rt0", Expiry |-> expiry,
       Audience |-> "aud", ClientID |-> "id", ClientSecret |-> "sec", IssuerURL |-> "iss"]>>

GraphCredentials == {Nil}

TokenCredentials ==
    {Nil, Credential("", Epoch + 3600)} \cup
    {Credential("at0", e) : e \in {ZeroTime, Epoch + 1, Epoch + 10, Epoch + 3600}}

-----------------------------------------------------------------------------
(* The process. Every command of the tool is one run of the program: the   *)
(* client a run was given does not outlive it.                             *)

Last(op, r) ==
    [op |-> op, err |-> r.err, saved |-> r.saved, disc |-> 0, exch |-> 0,
     issued |-> Nil, bearer |-> Nil, ctx |-> ZeroContext]

LastOf(op, r) ==
    [Last(op, r) EXCEPT !.disc = r.disc, !.exch = r.exch, !.issued = r.issued]

WithinBounds(c) == NumContexts(c) <= MaxContexts

Init ==
    /\ cfg = Read(<<>>)
    /\ file = <<>>
    /\ now = Epoch
    /\ ticks = 0
    /\ client = NoClient
    /\ last = Last("read", Result(ZeroConfig, "ok", FALSE))
    /\ run = [p \in Procs |-> [pc |-> "start", cfg |-> ZeroConfig, saves |-> 0, op |-> "none"]]
    /\ lastSave = 0

(* What an operation leaves behind: the Config in memory and, if it reached *)
(* Save, the file rewritten from it.                                        *)
Apply(r) ==
    /\ cfg' = r.cfg
    /\ file' = IF r.saved THEN Save(r.cfg) ELSE file

AddAPIOf(urls) ==
    \E name \in APINames, url \in urls :
        LET r == AddAPI(cfg, name, url)
        IN /\ Apply(r)
           /\ last' = Last("addAPI", r)
           /\ client' = NoClient
           /\ UNCHANGED <<now, ticks, raceVars>>

DoAddAPI == AddAPIOf(URLs)

DoRemoveAPI ==
    \E name \in APINames :
        LET r == RemoveAPI(cfg, name)
        IN /\ Apply(r)
           /\ last' = Last("removeAPI", r)
           /\ client' = NoClient
           /\ UNCHANGED <<now, ticks, raceVars>>

AddTenantOf(credentials) ==
    \E name \in TenantNames, api \in APINames, tenant \in Labels, oidcCfg \in credentials :
        LET r == AddTenant(cfg, name, api, tenant, oidcCfg)
        IN /\ WithinBounds(r.cfg)
           /\ Apply(r)
           /\ last' = Last("addTenant", r)
           /\ client' = NoClient
           /\ UNCHANGED <<now, ticks, raceVars>>

DoAddTenant == AddTenantOf(GraphCredentials)

DoRemoveTenant ==
    \E name \in TenantNames, api \in APINames :
        LET r == RemoveTenant(cfg, name, api)
        IN /\ Apply(r)
           /\ last' = Last("removeTenant", r)
           /\ client' = NoClient
           /\ UNCHANGED <<now, ticks, raceVars>>

DoSetCurrent ==
    \E api \in APINames, tenant \in TenantNames :
        LET r == SetCurrent(cfg, api, tenant)
        IN /\ Apply(r)
           /\ last' = Last("setCurrent", r)
           /\ client' = NoClient
           /\ UNCHANGED <<now, ticks, raceVars>>

DoGetCurrent ==
    LET r == GetCurrent(cfg)
    IN /\ last' = [Last("getCurrent", Result(cfg, r.err, FALSE)) EXCEPT !.ctx = r.ctx]
       /\ client' = NoClient
       /\ UNCHANGED <<cfg, file, now, ticks, raceVars>>

(* login: a run of its own, which reads the file. *)
DoLogin ==
    \E tenant \in TenantNames, api \in LoginAPIs,
       discovered \in BOOLEAN, exchange \in Exchanges :
        LET r == runLogin(file, now, tenant, api, LoginIdentity, discovered, exchange)
        IN /\ WithinBounds(r.cfg)
           /\ Apply(r)
           /\ last' = LastOf("login", r)
           /\ client' = NoClient
           /\ UNCHANGED <<now, ticks, raceVars>>

Next ==
    \/ DoAddAPI
    \/ DoRemoveAPI
    \/ DoAddTenant
    \/ DoRemoveTenant
    \/ DoSetCurrent
    \/ DoGetCurrent
    \/ DoLogin

Spec == Init /\ [][Next]_vars

-----------------------------------------------------------------------------
(* The runs that ask for a client: the tenants carry every kind of          *)
(* Credential, and time passes.                                             *)

TokAddAPI == AddAPIOf({"u"})

TokAddTenant == AddTenantOf(TokenCredentials)

(* rules.raw, up to conf.Client(ctx). *)
DoClient ==
    \E discovered1 \in BOOLEAN, exchange \in Exchanges, discovered2 \in BOOLEAN :
        LET r == Client(cfg, now, discovered1, exchange, discovered2)
        IN /\ Apply(r)
           /\ last' = LastOf("client", r)
           /\ client' = r.client
           /\ UNCHANGED <<now, ticks, raceVars>>

(* rules.raw, from conf.GetCurrent() to client.Get: the client's first      *)
(* request.                                                                 *)
DoRequest ==
    \E exchange \in Exchanges :
        /\ last.op = "client"
        /\ client.kind # "none"
        /\ LET cur == GetCurrent(cfg)
               r == RoundTrip(client, now, exchange)
           IN IF cur.err # "ok"
              THEN /\ last' = Last("request", Result(cfg, cur.err, FALSE))
                   /\ client' = client
              ELSE /\ last' = [Last("request", Result(cfg, r.err, FALSE))
                                 EXCEPT !.exch = r.exch, !.issued = r.issued,
                                        !.bearer = r.bearer]
                   /\ client' = r.client
        /\ UNCHANGED <<cfg, file, now, ticks, raceVars>>

(* Time passes; between Client and the request too. *)
Tick ==
    \E d \in TickSteps :
        /\ ticks < MaxTicks
        /\ now' = now + d
        /\ ticks' = ticks + 1
        /\ UNCHANGED <<cfg, file, client, last, raceVars>>

NextToken ==
    \/ TokAddAPI
    \/ TokAddTenant
    \/ DoClient
    \/ DoRequest
    \/ Tick

SpecToken == Init /\ [][NextToken]_vars

-----------------------------------------------------------------------------
(* The Selection and what getCurrent makes of it. *)

Exists(c, api, tenant) == api \in DOMAIN c.APIs /\ tenant \in DOMAIN c.APIs[api].Contexts

SelectionResolves(c) ==
    \/ c.Current = ZeroCurrent
    \/ Exists(c, c.Current.API, c.Current.Tenant)

(* The document config.json holds, for a file that is not empty. *)
Persisted == Head(file)

(* C1, as stated: in every reachable state the Selection is empty in both   *)
(* fields or names an API of the store and a tenant key of that API.        *)
C1_SelectionAlwaysResolves == SelectionResolves(cfg)

(* C1, amended: every operation that changes the Selection sets it to an    *)
(* API and a tenant that exist, and a Selection that resolves stops doing   *)
(* so only by a successful removeAPI or removeTenant, which leaves the      *)
(* Selection as it was.                                                     *)
C1_SelectionBrokenOnlyByRemoval ==
    [][ /\ cfg'.Current # cfg.Current => Exists(cfg', cfg'.Current.API, cfg'.Current.Tenant)
        /\ SelectionResolves(cfg) /\ ~SelectionResolves(cfg')
              => /\ last'.op \in {"removeAPI", "removeTenant"}
                 /\ last'.err = "ok"
                 /\ cfg'.Current = cfg.Current ]_vars

(* C1's case: a removal has left a Selection that names nothing. *)
C1_DanglingAfterRemoval ==
    /\ last.op = "removeTenant"
    /\ last.err = "ok"
    /\ cfg.Current.API # "" /\ cfg.Current.Tenant # ""
    /\ cfg.Current.API \in DOMAIN cfg.APIs
    /\ ~SelectionResolves(cfg)

(* C2: every document written by save has current.api empty if and only if *)
(* current.tenant is empty.                                                 *)
C2_NoHalfSetSelectionPersisted ==
    file # <<>> => (Persisted.current.api = "" <=> Persisted.current.tenant = "")

(* C3: the first successful addTenant of a store without tenants sets the   *)
(* Selection to the API and tenant it was given, and getCurrent then gives  *)
(* the Context just added; a successful addTenant to a store that has       *)
(* tenants leaves the Selection as it is.                                   *)
C3_AutoSelectionOnFirstAdd ==
    [][ last'.op = "addTenant" /\ last'.err = "ok"
          => IF NumContexts(cfg) = 0 /\ cfg.Current = ZeroCurrent
             THEN /\ ~Exists(cfg, cfg'.Current.API, cfg'.Current.Tenant)
                  /\ Exists(cfg', cfg'.Current.API, cfg'.Current.Tenant)
                  /\ GetCurrent(cfg').err = "ok"
                  /\ GetCurrent(cfg').ctx =
                        cfg'.APIs[cfg'.Current.API].Contexts[cfg'.Current.Tenant]
             ELSE NumContexts(cfg) > 0 => cfg'.Current = cfg.Current ]_vars

(* C4: getCurrent returns a Context only if both fields of the Selection    *)
(* are set and the API and the tenant exist, and then the stored one; with  *)
(* a field unset it fails with EmptySelection, and with the API or the      *)
(* tenant missing with NotFound.                                            *)
C4_GetCurrentDetectsDangling ==
    last.op = "getCurrent" =>
        LET set == cfg.Current.API # "" /\ cfg.Current.Tenant # ""
            found == Exists(cfg, cfg.Current.API, cfg.Current.Tenant)
        IN /\ last.err = "EmptySelection" <=> ~set
           /\ last.err = "NotFound" <=> set /\ ~found
           /\ last.err = "ok" <=> set /\ found
           /\ last.err = "ok" =>
                 last.ctx = cfg.APIs[cfg.Current.API].Contexts[cfg.Current.Tenant]
           /\ last.err # "ok" => last.ctx = ZeroContext

(* C4's case: getCurrent on a Selection whose tenant was removed. *)
C4_NotFoundOnDangling ==
    /\ last.op = "getCurrent"
    /\ last.err = "NotFound"
    /\ cfg.Current.API \in DOMAIN cfg.APIs

(* C5: addAPI on a name that exists and addTenant on a key that exists      *)
(* under the API fail with AlreadyExists, change nothing of the store and   *)
(* write nothing.                                                           *)
RejectedUnchanged(r, c) == r.err = "AlreadyExists" /\ r.cfg = c /\ ~r.saved

C5_RejectedAddLeavesStore ==
    /\ [](\A api \in DOMAIN cfg.APIs :
              /\ \A url \in URLs : RejectedUnchanged(AddAPI(cfg, api, url), cfg)
              /\ \A name \in DOMAIN cfg.APIs[api].Contexts :
                     \A oidcCfg \in TokenCredentials :
                         RejectedUnchanged(AddTenant(cfg, name, api, "T2", oidcCfg), cfg))
    /\ [][ last'.op \in {"addAPI", "addTenant"} /\ last'.err = "AlreadyExists"
              => cfg' = cfg /\ file' = file /\ ~last'.saved ]_vars

(* C5's case: an addTenant was rejected for a tenant that carries a         *)
(* Credential, in a store that was written before.                          *)
C5_TenantRejected ==
    /\ last.op = "addTenant"
    /\ last.err = "AlreadyExists"
    /\ \E api \in DOMAIN cfg.APIs : \E name \in DOMAIN cfg.APIs[api].Contexts :
           cfg.APIs[api].Contexts[name].OIDC # Nil
    /\ file = Save(cfg)

-----------------------------------------------------------------------------
(* Client and the token provider. *)

(* A step of DoClient: Tick leaves last as it is and moves now. *)
ClientStep == last'.op = "client" /\ now' = now

Credentialed(c) == GetCurrent(c).err = "ok" /\ GetCurrent(c).ctx.OIDC # Nil

Anonymous(c) == GetCurrent(c).err = "ok" /\ GetCurrent(c).ctx.OIDC = Nil

CurrentCredential(c) == GetCurrent(c).ctx.OIDC[1]

HasAccessToken(c) == Credentialed(c) /\ CurrentCredential(c).AccessToken # ""

(* C6, as stated: one client() call on a Credential with an access token    *)
(* makes no discovery, no exchange and no write if the expiry is one hour   *)
(* ahead, and invokes the provider exactly once if it is one second ahead.  *)
C6_NoProviderCallWhenValid ==
    [][ ClientStep /\ HasAccessToken(cfg) =>
          /\ CurrentCredential(cfg).Expiry = now + 3600
                => /\ last'.disc = 0 /\ last'.exch = 0
                   /\ ~last'.saved /\ file' = file
          /\ CurrentCredential(cfg).Expiry = now + 1
                => last'.disc + last'.exch >= 1 /\ last'.exch <= 1 ]_vars

(* C6, amended: with the expiry one hour ahead client() makes no exchange   *)
(* and writes nothing, and makes exactly one discovery, to build the        *)
(* client; with the expiry one second ahead it makes at most one exchange,  *)
(* after a discovery, and when it succeeds it has made exactly one exchange *)
(* and two discoveries and has written the store.                           *)
C6_OneExchangeOnlyWhenInvalid ==
    [][ ClientStep /\ HasAccessToken(cfg) =>
          /\ CurrentCredential(cfg).Expiry = now + 3600
                => /\ last'.exch = 0 /\ last'.disc = 1
                   /\ ~last'.saved /\ file' = file /\ cfg' = cfg
          /\ CurrentCredential(cfg).Expiry = now + 1
                => /\ last'.exch <= 1 /\ last'.disc >= 1
                   /\ last'.err = "ok"
                         => last'.exch = 1 /\ last'.disc = 2 /\ last'.saved ]_vars

(* C6's case: client() succeeded on a token that expires in an hour, with   *)
(* one discovery and no exchange.                                           *)
C6_ValidTokenOneDiscovery ==
    /\ last.op = "client" /\ last.err = "ok"
    /\ HasAccessToken(cfg)
    /\ CurrentCredential(cfg).Expiry = now + 3600
    /\ CurrentCredential(cfg).AccessToken = "at0"
    /\ last.disc = 1 /\ last.exch = 0
    /\ client.kind = "oauth2"

(* C7: when client() finds the Credential invalid and the exchange          *)
(* succeeds, the persisted document holds for the selected API and tenant   *)
(* the access token, refresh token and expiry the provider returned, and    *)
(* everything else of the store is as it was.                               *)
C7_RefreshWriteThrough ==
    [][ ClientStep /\ last'.issued # Nil =>
          LET api == cfg.Current.API
              tenant == cfg.Current.Tenant
              o == CurrentCredential(cfg)
              tkn == last'.issued[1]
          IN /\ Credentialed(cfg)
             /\ cfg' = [cfg EXCEPT !.APIs[api].Contexts[tenant].OIDC =
                           <<[o EXCEPT !.AccessToken = tkn.AccessToken,
                                       !.RefreshToken = tkn.RefreshToken,
                                       !.Expiry = tkn.Expiry]>>]
             /\ last'.saved
             /\ file' = Save(cfg')
             /\ Read(file') = cfg' ]_vars

(* C7's case: a refresh was written through in a store with two Contexts,   *)
(* replacing a refresh token by the empty one of the answer.                *)
C7_RefreshedAmongOthers ==
    /\ last.op = "client" /\ last.issued # Nil
    /\ NumContexts(cfg) >= 2
    /\ Credentialed(cfg)
    /\ CurrentCredential(cfg).AccessToken = "at2"
    /\ CurrentCredential(cfg).RefreshToken = ""
    /\ Read(file) = cfg

(* C8: client() on a current Context without a Credential gives the default *)
(* client with success, makes no discovery and no exchange, and writes      *)
(* nothing: the store in memory and the document are as they were.          *)
C8_AnonymousPath ==
    [][ ClientStep /\ Anonymous(cfg) =>
          /\ client' = DefaultClient
          /\ last'.err = "ok"
          /\ last'.disc = 0 /\ last'.exch = 0
          /\ ~last'.saved
          /\ cfg' = cfg /\ file' = file ]_vars

(* C8's case: the default client was given for an anonymous Context of a    *)
(* store that also holds a Credential.                                      *)
C8_DefaultClientGiven ==
    /\ last.op = "client" /\ last.err = "ok"
    /\ Anonymous(cfg)
    /\ client = DefaultClient
    /\ \E api \in DOMAIN cfg.APIs : \E name \in DOMAIN cfg.APIs[api].Contexts :
           cfg.APIs[api].Contexts[name].OIDC # Nil

(* C9: the bearer token of the first request of the client client() gave    *)
(* for a credentialed Context is the access token the store holds, and the  *)
(* provider is asked for a token only if the stored one has expired.        *)
C9_ClientUsesStoredToken ==
    last.op = "request" /\ last.err = "ok" /\ client.kind = "oauth2" =>
        /\ last.bearer = <<CurrentCredential(cfg).AccessToken>>
        /\ last.exch > 0 =>
              ~Valid([AccessToken |-> CurrentCredential(cfg).AccessToken,
                      RefreshToken |-> CurrentCredential(cfg).RefreshToken,
                      Expiry |-> CurrentCredential(cfg).Expiry], now)

-----------------------------------------------------------------------------
(* Two runs of the tool on one config.json. A run reads the file, changes   *)
(* its own Config and saves it; Save is two system calls, the open that     *)
(* truncates the file and the write, and the other run's calls fall at any  *)
(* point between them.                                                      *)

RaceCredentials == {Nil, Credential("at0", Epoch + 1)}

(* Read, at the start of a command. *)
RaceRead(p) ==
    /\ run[p].pc = "start"
    /\ run[p].saves < MaxSaves
    /\ run' = [run EXCEPT ![p].pc = "loaded", ![p].cfg = Read(file)]
    /\ UNCHANGED <<cfg, file, now, ticks, client, last, lastSave>>

(* The command's operation on the run's Config, up to Save's OpenFile: a    *)
(* command that does not reach Save leaves the file alone and ends.         *)
RaceApply(p, op, r) ==
    /\ run[p].pc = "loaded"
    /\ WithinBounds(r.cfg)
    /\ IF r.saved
       THEN /\ run' = [run EXCEPT ![p].pc = "opened", ![p].cfg = r.cfg, ![p].op = op]
            /\ file' = <<>>
       ELSE /\ run' = [run EXCEPT ![p].pc = "start", ![p].cfg = r.cfg]
            /\ file' = file
    /\ UNCHANGED <<cfg, now, ticks, client, last, lastSave>>

RaceAddAPI(p) ==
    \E name \in APINames :
        RaceApply(p, "addAPI", AddAPI(run[p].cfg, name, "u"))

RaceAddTenant(p) ==
    \E api \in APINames, oidcCfg \in RaceCredentials :
        RaceApply(p, "addTenant", AddTenant(run[p].cfg, "t", api, "T", oidcCfg))

RaceRefresh(p) ==
    \E exchange \in Exchanges :
        /\ Credentialed(run[p].cfg)
        /\ RaceApply(p, "refresh", updateOIDCToken(run[p].cfg, now, TRUE, exchange))

(* Save's Encode: the one write, at offset 0 of whatever the file holds by  *)
(* now; the command ends.                                                   *)
RaceWrite(p) ==
    /\ run[p].pc = "opened"
    /\ file' = WriteAt0(file, Image(run[p].cfg))
    /\ run' = [run EXCEPT ![p].pc = "start", ![p].saves = @ + 1]
    /\ lastSave' = p
    /\ UNCHANGED <<cfg, now, ticks, client, last>>

NextRace ==
    \E p \in Procs :
        \/ RaceRead(p)
        \/ RaceAddAPI(p)
        \/ RaceAddTenant(p)
        \/ RaceRefresh(p)
        \/ RaceWrite(p)

SpecRace == Init /\ [][NextRace]_vars

(* No Save is between its open and its write. *)
Quiescent == \A p \in Procs : run[p].pc # "opened"

(* C10: when the reads and saves of two runs interleave, the document left  *)
(* in the file is the complete Config of the run whose save came last; an   *)
(* earlier writer's update can be absent from it.                           *)
C10_LastWriterWins ==
    Quiescent /\ lastSave # 0 =>
        /\ file # <<>>
        /\ Read(file) = run[lastSave].cfg
        /\ Head(file) = Encode(run[lastSave].cfg)

(* C10's case: both runs have saved, and the token the earlier writer       *)
(* refreshed and wrote is not in the document, which still holds the token  *)
(* that was replaced.                                                       *)
C10_RefreshLost ==
    /\ Quiescent /\ lastSave # 0
    /\ \E p \in Procs \ {lastSave} :
          /\ run[p].pc = "start" /\ run[p].saves > 0 /\ run[p].op = "refresh"
          /\ Credentialed(run[p].cfg)
          /\ CurrentCredential(run[p].cfg).AccessToken \in {"at1", "at2"}
          /\ Credentialed(Read(file))
          /\ Read(file).Current = run[p].cfg.Current
          /\ CurrentCredential(Read(file)).AccessToken = "at0"
          /\ Cardinality(DOMAIN Read(file).APIs) > Cardinality(DOMAIN run[p].cfg.APIs)

-----------------------------------------------------------------------------
(* The runs that ask for a client and make no request with it. *)

NextRefresh ==
    \/ TokAddAPI
    \/ TokAddTenant
    \/ DoClient
    \/ Tick

SpecRefresh == Init /\ [][NextRefresh]_vars

-----------------------------------------------------------------------------
(* The refresh decision. *)

(* updateOIDCToken returned without discovery and without exchange. *)
SkipsProvider(c, t) ==
    \A discovered \in BOOLEAN, exchange \in Exchanges :
        LET u == updateOIDCToken(c, t, discovered, exchange)
        IN u.err = "ok" /\ u.disc = 0 /\ u.exch = 0 /\ ~u.saved /\ u.cfg = c

(* updateOIDCToken went to the provider: discovery, and the exchange after  *)
(* a discovery that succeeded.                                              *)
InvokesProvider(c, t) ==
    \A discovered \in BOOLEAN, exchange \in Exchanges :
        LET u == updateOIDCToken(c, t, discovered, exchange)
        IN u.disc = 1 /\ (discovered <=> u.exch = 1)

(* C11, as stated: updateOIDCToken skips the provider if and only if the    *)
(* access token is not empty and the expiry is strictly later than now plus *)
(* the margin; otherwise, the zero expiry included, it invokes the provider. *)
C11_SkipsIffStrictlyBeyondMargin ==
    Credentialed(cfg) =>
        LET o == CurrentCredential(cfg)
            fresh == o.AccessToken # "" /\ o.Expiry > now + expiryDelta
        IN IF fresh THEN SkipsProvider(cfg, now) ELSE InvokesProvider(cfg, now)

(* C11, amended: updateOIDCToken skips the provider if and only if the      *)
(* access token is not empty and the expiry either is the zero timestamp    *)
(* (a token that never expires) or is not earlier than now plus the margin  *)
(* of 10 seconds; in every other case it invokes the provider, and a        *)
(* client() call then makes an exchange exactly when it gets past the       *)
(* discovery.                                                               *)
C11_SkipsIffUnexpiredOrNoExpiry ==
    /\ [](Credentialed(cfg) =>
            LET o == CurrentCredential(cfg)
                fresh == /\ o.AccessToken # ""
                         /\ (o.Expiry = ZeroTime \/ o.Expiry >= now + 10)
            IN IF fresh THEN SkipsProvider(cfg, now) ELSE InvokesProvider(cfg, now))
    /\ [][ ClientStep /\ Credentialed(cfg) =>
             LET o == CurrentCredential(cfg)
                 fresh == /\ o.AccessToken # ""
                          /\ (o.Expiry = ZeroTime \/ o.Expiry >= now + 10)
             IN IF fresh
                THEN last'.exch = 0 /\ last'.disc = 1 /\ cfg' = cfg /\ file' = file
                ELSE /\ last'.disc >= 1
                     /\ last'.err = "ok" => last'.exch = 1 /\ last'.saved ]_vars

(* C11's case: client() succeeded without an exchange on a Credential whose *)
(* expiry is the zero timestamp.                                            *)
C11_ZeroExpiryNeverRefreshed ==
    /\ last.op = "client" /\ last.err = "ok"
    /\ Credentialed(cfg)
    /\ CurrentCredential(cfg).AccessToken = "at0"
    /\ CurrentCredential(cfg).Expiry = ZeroTime
    /\ last.exch = 0 /\ last.disc = 1

-----------------------------------------------------------------------------
(* login and the API it names. *)

(* The API name login hands to AddTenant. *)
ResolvedAPI(c, api) == IF api \in DOMAIN c.APIs THEN api ELSE URLParse(api).Host

(* C12: a login whose token exchange succeeds adds no API if its argument   *)
(* names an existing one and creates one from the URL otherwise, and fails  *)
(* with AlreadyExists only when the tenant key exists under the resolved    *)
(* API.                                                                     *)
C12_LoginNeverFailsOnKnownAPI ==
    \A api \in LoginAPIs, tenant \in TenantNames, resp \in ProviderResponses :
        LET conf == Read(file)
            r == runLogin(file, now, tenant, api, LoginIdentity, TRUE, <<resp>>)
        IN /\ api \in DOMAIN conf.APIs => DOMAIN r.cfg.APIs = DOMAIN conf.APIs
           /\ r.err = "AlreadyExists" => Exists(conf, ResolvedAPI(conf, api), tenant)

-----------------------------------------------------------------------------
(* The Context GetCurrent returns. Context is a struct copied on return;    *)
(* its OIDC field is a *OIDCConfig, and the copy of a pointer points at the *)
(* OIDCConfig the store's Context points at. A pointer is modelled here by  *)
(* the place of the object it points at.                                    *)

ReturnedContext(c) ==
    LET cur == GetCurrent(c)
    IN [Tenant |-> cur.ctx.Tenant,
        OIDC |-> IF cur.ctx.OIDC = Nil THEN Nil
                 ELSE <<[API |-> c.Current.API, Tenant |-> c.Current.Tenant]>>]

(* cctx.Tenant = v: a write to the copy. *)
AssignTenant(c, cctx, v) == [store |-> c, cctx |-> [cctx EXCEPT !.Tenant = v]]

(* cctx.OIDC.AccessToken = v (config.go:438), and the same for RefreshToken *)
(* and Expiry: a write to the object cctx.OIDC points at.                   *)
AssignOIDC(c, cctx, field, v) ==
    LET at == cctx.OIDC[1]
    IN [store |-> [c EXCEPT !.APIs[at.API].Contexts[at.Tenant].OIDC[1][field] = v],
        cctx |-> cctx]

(* C13: changing a field of the Context getCurrent returned, the fields of  *)
(* its Credential included, does not change the store's Context until the   *)
(* changed Context is written back.                                         *)
C13_GetCurrentReturnsSnapshot ==
    GetCurrent(cfg).err = "ok" =>
        /\ AssignTenant(cfg, ReturnedContext(cfg), "T2").store = cfg
        /\ Credentialed(cfg) =>
              /\ AssignOIDC(cfg, ReturnedContext(cfg), "AccessToken", "x").store = cfg
              /\ AssignOIDC(cfg, ReturnedContext(cfg), "RefreshToken", "x").store = cfg
              /\ AssignOIDC(cfg, ReturnedContext(cfg), "Expiry", now + 7200).store = cfg

-----------------------------------------------------------------------------
(* A refresh that fails. *)

StoredToken(c) ==
    [AccessToken |-> CurrentCredential(c).AccessToken,
     RefreshToken |-> CurrentCredential(c).RefreshToken,
     Expiry |-> CurrentCredential(c).Expiry]

(* C14: when client() needs a refresh and the refresh fails at the          *)
(* provider, in discovery or in the exchange, client() returns an error and *)
(* no client, makes no second call of the step that failed, does not save,  *)
(* and leaves the store in memory and the document as they were.            *)
C14_FailedRefreshChangesNothing ==
    [][ /\ ClientStep /\ Credentialed(cfg)
        /\ ~Valid(StoredToken(cfg), now)
        /\ last'.issued = Nil
        => /\ last'.err = "TokenRefreshFailed"
           /\ client' = NoClient
           /\ last'.disc = 1 /\ last'.exch <= 1
           /\ ~last'.saved
           /\ cfg' = cfg /\ file' = file ]_vars

(* C14's case: the exchange of a refresh failed, and the store and the      *)
(* document hold the old token.                                             *)
C14_ExchangeFailed ==
    /\ last.op = "client" /\ last.err = "TokenRefreshFailed"
    /\ last.disc = 1 /\ last.exch = 1 /\ last.issued = Nil
    /\ Credentialed(cfg)
    /\ StoredToken(cfg) = [AccessToken |-> "at0", RefreshToken |-> "rt0", Expiry |-> Epoch + 1]
    /\ Read(file) = cfg
    /\ client = NoClient

-----------------------------------------------------------------------------
(* One process that uses every operation of the store and asks for clients: *)
(* what it holds in memory against what it has written.                     *)

WriteCredentials == {Nil, Credential("at0", Epoch + 1), Credential("at0", Epoch + 3600)}

WriteAddTenant == AddTenantOf(WriteCredentials)

NextWrite ==
    \/ TokAddAPI
    \/ WriteAddTenant
    \/ DoRemoveAPI
    \/ DoRemoveTenant
    \/ DoSetCurrent
    \/ DoGetCurrent
    \/ DoClient

SpecWrite == Init /\ [][NextWrite]_vars

(* C15: after every completed operation of a single process, accepted or    *)
(* rejected, the document read back is equal to the store in memory.        *)
C15_WriteThrough == Read(file) = cfg

(* C15's case: a tenant was removed from a store that holds a refreshed     *)
(* token, leaving an API with an empty context map, and the document read   *)
(* back is the store.                                                       *)
C15_RemovedAfterRefresh ==
    /\ last.op = "removeTenant" /\ last.err = "ok"
    /\ \E api \in DOMAIN cfg.APIs :
          cfg.APIs[api].Contexts = EmptyMap /\ ~cfg.APIs[api].ContextsNil
    /\ \E api \in DOMAIN cfg.APIs : \E name \in DOMAIN cfg.APIs[api].Contexts :
          /\ cfg.APIs[api].Contexts[name].OIDC # Nil
          /\ cfg.APIs[api].Contexts[name].OIDC[1].AccessToken = "at1"
    /\ Read(file) = cfg

-----------------------------------------------------------------------------
(* What a successful client() leaves in the store. *)

(* C16: if the provider's token is valid when it is issued, then whenever   *)
(* client() succeeds for a Context with a Credential, the Credential stored *)
(* for the Selection, in memory and in the document, holds an access token  *)
(* that is not empty and is valid at that moment.                           *)
C16_FreshAfterClient ==
    [][ /\ ClientStep /\ Credentialed(cfg)
        /\ last'.err = "ok"
        /\ last'.issued # Nil => Valid(last'.issued[1], now)
        => /\ cfg'.Current = cfg.Current
           /\ Credentialed(cfg')
           /\ StoredToken(cfg').AccessToken # ""
           /\ Valid(StoredToken(cfg'), now)
           /\ Credentialed(Read(file'))
           /\ StoredToken(Read(file')) = StoredToken(cfg') ]_vars

(* C16's case: client() succeeded after a refresh, before the clock moved,  *)
(* and the store holds the token just issued, which is valid.               *)
C16_FreshAfterRefresh ==
    /\ last.op = "client" /\ last.err = "ok" /\ ticks = 0
    /\ last.issued # Nil
    /\ last.issued[1].AccessToken = "at1"
    /\ Credentialed(cfg)
    /\ StoredToken(cfg) = last.issued[1]
    /\ Valid(StoredToken(cfg), now)
    /\ StoredToken(Read(file)) = StoredToken(cfg)

-----------------------------------------------------------------------------
(* setCurrent, and the operations that find nothing to act on. *)

NotFoundUnchanged(r, c) == r.err = "NotFound" /\ r.cfg = c /\ ~r.saved

(* C17: setCurrent succeeds if and only if the API and the tenant under it  *)
(* exist; on success the Selection is the pair given and getCurrent then    *)
(* returns that tenant's Context; on NotFound nothing changes and nothing   *)
(* is written, and the same holds for removeAPI, removeTenant and           *)
(* addTenant on a missing API.                                              *)
C17_SetCurrentSelectsExisting ==
    \A api \in APINames, tenant \in TenantNames :
        LET r == SetCurrent(cfg, api, tenant)
        IN /\ r.err = "ok" <=> Exists(cfg, api, tenant)
           /\ r.err = "ok" =>
                 /\ r.cfg.Current = [API |-> api, Tenant |-> tenant]
                 /\ r.saved
                 /\ GetCurrent(r.cfg).err = "ok"
                 /\ GetCurrent(r.cfg).ctx = cfg.APIs[api].Contexts[tenant]
           /\ r.err # "ok" => NotFoundUnchanged(r, cfg)
           /\ api \notin DOMAIN cfg.APIs =>
                 /\ NotFoundUnchanged(RemoveAPI(cfg, api), cfg)
                 /\ NotFoundUnchanged(AddTenant(cfg, tenant, api, "T", Nil), cfg)
           /\ ~Exists(cfg, api, tenant) =>
                 NotFoundUnchanged(RemoveTenant(cfg, tenant, api), cfg)

-----------------------------------------------------------------------------
(* Who changes the Selection. *)

(* C18: once the Selection is set, only a successful setCurrent changes it: *)
(* addAPI, removeAPI, addTenant, removeTenant, getCurrent and client()      *)
(* leave it as it is. After the selected API or tenant is removed,          *)
(* getCurrent's NotFound ends only by a successful setCurrent or by an      *)
(* addTenant that adds the selected tenant key under the selected API name  *)
(* again; adding other tenants selects nothing.                             *)
C18_OnlySetCurrentChangesSelection ==
    [][ /\ cfg.Current # ZeroCurrent /\ cfg'.Current # cfg.Current
              => last'.op = "setCurrent" /\ last'.err = "ok"
        /\ GetCurrent(cfg).err = "NotFound" /\ GetCurrent(cfg').err # "NotFound"
              => \/ last'.op = "setCurrent" /\ last'.err = "ok"
                 \/ /\ last'.op = "addTenant" /\ last'.err = "ok"
                    /\ cfg'.Current = cfg.Current
                    /\ ~Exists(cfg, cfg.Current.API, cfg.Current.Tenant)
                    /\ Exists(cfg', cfg.Current.API, cfg.Current.Tenant)
                    /\ GetCurrent(cfg').err = "ok" ]_vars

(* C18's case: after the selected tenant was removed another tenant was     *)
(* added, the Selection still names the removed one, and getCurrent fails   *)
(* with NotFound.                                                           *)
C18_AddedOtherAfterRemoval ==
    /\ last.op = "addTenant" /\ last.err = "ok"
    /\ NumContexts(cfg) >= 1
    /\ cfg.Current.API # "" /\ cfg.Current.Tenant # ""
    /\ ~Exists(cfg, cfg.Current.API, cfg.Current.Tenant)
    /\ GetCurrent(cfg).err = "NotFound"

-----------------------------------------------------------------------------
(* A Read while another run saves. *)

(* C19: a Read that interleaves with another run's Save returns the         *)
(* document as it was before that Save or as it is after it, and never,     *)
(* with success, the zero Config while the documents before and after are   *)
(* not empty. Every Save of these runs writes a store that is not empty, so *)
(* once a Save has completed both documents are not empty.                  *)
C19_NoTornRead ==
    [][ \A p \in Procs :
          /\ run[p].pc = "start" /\ run'[p].pc = "loaded"
          /\ lastSave # 0
          => /\ run'[p].cfg # ZeroConfig
             /\ \/ run'[p].cfg = run[lastSave].cfg
                \/ \E q \in Procs \ {p} : run'[p].cfg = run[q].cfg ]_vars

====
